---- MODULE Spec2Model ----
(***************************************************************************)
(* Model of rustc-edit-distance (src/src/lib.rs): the bounded restricted   *)
(* edit distance, the substring-aware score built on it, and the tiered    *)
(* "did you mean" candidate selection.                                     *)
(*                                                                         *)
(* Strings are sequences of Unicode scalar values (naturals).  Rust slices *)
(* and vectors are 0-based, TLA+ sequences 1-based: the code's row[k] is   *)
(* row[k + 1] here and the code's a[a_idx] with a_idx = i - 1 is a[i].     *)
(* Option<T> is a sequence of length 0 (None) or 1 (Some).                 *)
(***************************************************************************)
EXTENDS Integers, Sequences, FiniteSets, TLC

VARIABLES
    fn,         \* the distance function the harness called
    a, b, c,    \* its string arguments (c: third string of a triangle)
    limit,      \* its limit argument
    pc,         \* "call" | "done" | "panicked"
    result,     \* Option<usize> it returned
    overflow,   \* some usize operation of the call left the usize range
    tri,        \* the three distances of a triangle
    stack,      \* activation records of find_best_match_for_name_impl
    returned,   \* the outermost find_best_match_for_name_impl has returned
    ret,        \* Option<&str> it returned
    assert_failed   \* debug_assert!(use_substring_score) was reached with false

vars == <<fn, a, b, c, limit, pc, result, overflow, tri, stack, returned, ret,
          assert_failed>>

distVars == <<fn, a, b, c, limit, pc, result, overflow, tri>>
matchVars == <<stack, returned, ret, assert_failed>>

---------------------------------------------------------------------------
(* Bounds of the model. *)

\* longest string given to the distance functions
MaxLen == 3
\* largest small limit given to the distance functions
MaxLimit == 3

\* usize::MAX; the width is the target's, 16 bits here so that TLC's
\* integers hold the sums that leave the range.
UsizeMax == 65535

\* 'a', 'b', 'c'
Alphabet == {97, 98, 99}

StringsOver(alpha, n) == UNION {[1..k -> alpha] : k \in 0..n}

Strings == StringsOver(Alphabet, MaxLen)

Limits == (0..MaxLimit) \cup {UsizeMax}

---------------------------------------------------------------------------
(* Option and usize arithmetic. *)

None == <<>>
Some(x) == <<x>>
IsSome(o) == Len(o) = 1
Unwrap(o) == o[1]

Min(x, y) == IF x <= y THEN x ELSE y
Max(x, y) == IF x >= y THEN x ELSE y

\* x + y on usize: the wrapped value, and whether the sum left the range
\* (a panic in a build with overflow checks, the wrapped value otherwise).
AddU(x, y) == (x + y) % (UsizeMax + 1)
AddOverflows(x, y) == x + y > UsizeMax

\* x - y on usize
SubU(x, y) == (x - y + UsizeMax + 1) % (UsizeMax + 1)
SubOverflows(x, y) == x < y

---------------------------------------------------------------------------
(* edit_distance *)

\* lines 23-25: ensure that b is the shorter string
OrientNoSwap(x, y) == <<x, y>>
Orient(x, y) == IF Len(x) < Len(y) THEN <<y, x>> ELSE <<x, y>>

\* lines 33-40: strip common prefix
RECURSIVE StripPrefix(_, _)
StripPrefix(x, y) ==
    IF Len(x) > 0 /\ Len(y) > 0 /\ Head(x) = Head(y)
    THEN StripPrefix(Tail(x), Tail(y))
    ELSE <<x, y>>

\* lines 41-48: strip common suffix
RECURSIVE StripSuffix(_, _)
StripSuffix(x, y) ==
    IF Len(x) > 0 /\ Len(y) > 0 /\ x[Len(x)] = y[Len(y)]
    THEN StripSuffix(SubSeq(x, 1, Len(x) - 1), SubSeq(y, 1, Len(y) - 1))
    ELSE <<x, y>>

\* lines 56-58: the three rows
InitPrevPrev(y) == [k \in 1..(Len(y) + 1) |-> UsizeMax]
InitPrevOffByOne(y) == [k \in 1..(Len(y) + 1) |-> k]
InitPrev(y) == [k \in 1..(Len(y) + 1) |-> k - 1]
InitCurrent(y) == [k \in 1..(Len(y) + 1) |-> 0]

\* line 70
SubstitutionFree(x, y, i, j) == 0
substitution_cost(x, y, i, j) == IF x[i] = y[j] THEN 0 ELSE 1

\* line 83
Transposes(x, y, i, j) ==
    (i > 1) /\ (j > 1) /\ (x[i] = y[j - 1]) /\ (x[i - 1] = y[j])

\* lines 66-87: the columns j..b.len() of row i.  r.row is `current`,
\* r.ovf whether an addition so far left the usize range.
RECURSIVE FillRow(_, _, _, _, _, _, _)
FillRow(r, prev, prev_prev, x, y, i, j) ==
    IF j > Len(y) THEN r
    ELSE LET sc == substitution_cost(x, y, i, j)
             tr == Transposes(x, y, i, j)
             base == Min(AddU(prev[j + 1], 1),
                         Min(AddU(r.row[j], 1), AddU(prev[j], sc)))
             cell == IF tr THEN Min(base, AddU(prev_prev[j - 1], 1)) ELSE base
             o == \/ AddOverflows(prev[j + 1], 1)
                  \/ AddOverflows(r.row[j], 1)
                  \/ AddOverflows(prev[j], sc)
                  \/ (tr /\ AddOverflows(prev_prev[j - 1], 1))
         IN FillRow([row |-> [r.row EXCEPT ![j + 1] = cell], ovf |-> r.ovf \/ o],
                    prev, prev_prev, x, y, i, j + 1)

\* lines 61-91: rows i..a.len(), rotating the buffers after each; the
\* result's row is `prev` after the last rotation.  (r ranges over the one
\* filled row, so that each row is a value before the next one starts.)
RECURSIVE Rows(_, _, _, _, _, _, _)
Rows(prev_prev, prev, current, ovf, x, y, i) ==
    IF i > Len(x) THEN [row |-> prev, ovf |-> ovf]
    ELSE CHOOSE out \in
             {Rows(prev, r.row, prev_prev, r.ovf, x, y, i + 1) :
                 r \in {FillRow([row |-> [current EXCEPT ![1] = i], ovf |-> ovf],
                                prev, prev_prev, x, y, i, 1)}} : TRUE

\* line 95
WithinLimitStrict(distance, lim) == distance < lim
WithinLimit(distance, lim) == distance <= lim

\* lines 18-96: val is the returned Option<usize>, ovf whether some usize
\* operation left the range on the way.
edit_distance_run(a0, b0, lim) ==
    LET o == Orient(a0, b0)
        min_dist == SubU(Len(o[1]), Len(o[2]))
        s1 == StripPrefix(o[1], o[2])
        s == StripSuffix(s1[1], s1[2])
        x == s[1]
        y == s[2]
        under == SubOverflows(Len(o[1]), Len(o[2]))
    IN IF min_dist > lim THEN [val |-> None, ovf |-> under]
       ELSE IF y = <<>> THEN [val |-> Some(min_dist), ovf |-> under]
       ELSE LET r == Rows(InitPrevPrev(y), InitPrev(y), InitCurrent(y),
                          under, x, y, 1)
                distance == r.row[Len(y) + 1]
            IN [val |-> IF WithinLimit(distance, lim) THEN Some(distance) ELSE None,
                ovf |-> r.ovf]

edit_distance(a0, b0, lim) == edit_distance_run(a0, b0, lim).val

---------------------------------------------------------------------------
(* edit_distance_with_substrings, lines 106-132 *)

edit_distance_with_substrings_run(a0, b0, lim) ==
    LET n == Len(a0)
        m == Len(b0)
        big_len_diff == (n * 2) < m \/ (m * 2) < n
        len_diff == IF n < m THEN m - n ELSE n - m
        inner == edit_distance_run(a0, b0, AddU(lim, len_diff))
        o1 == AddOverflows(lim, len_diff) \/ inner.ovf
    IN IF ~IsSome(inner.val) THEN [val |-> None, ovf |-> o1]
       ELSE LET distance == Unwrap(inner.val)
                score0 == SubU(distance, len_diff)
                score == IF score0 = 0 /\ len_diff > 0 /\ ~big_len_diff THEN 1
                         ELSE IF ~big_len_diff
                              THEN AddU(score0, (len_diff + 1) \div 2)
                              ELSE AddU(score0, len_diff)
                o2 == \/ SubOverflows(distance, len_diff)
                      \/ (~(score0 = 0 /\ len_diff > 0 /\ ~big_len_diff)
                          /\ ~big_len_diff
                          /\ AddOverflows(score0, (len_diff + 1) \div 2))
                      \/ (big_len_diff /\ AddOverflows(score0, len_diff))
            IN [val |-> IF score <= lim THEN Some(score) ELSE None,
                ovf |-> o1 \/ o2]

edit_distance_with_substrings(a0, b0, lim) ==
    edit_distance_with_substrings_run(a0, b0, lim).val

---------------------------------------------------------------------------
(* Strings as find_best_match_for_name_impl reads them. *)

\* str::to_uppercase on the ASCII range: 'a'..'z' to 'A'..'Z'
ToUpperChar(ch) == IF ch >= 97 /\ ch <= 122 THEN ch - 32 ELSE ch
to_uppercase(s) == [k \in 1..Len(s) |-> ToUpperChar(s[k])]

\* str::contains
Contains(hay, needle) ==
    \E k \in 0..(Len(hay) - Len(needle)) :
        SubSeq(hay, k + 1, k + Len(needle)) = needle

\* str::len: the length in bytes of the UTF-8 encoding
Utf8Width(ch) ==
    IF ch < 128 THEN 1 ELSE IF ch < 2048 THEN 2 ELSE IF ch < 65536 THEN 3 ELSE 4
RECURSIVE ByteLen(_)
ByteLen(s) == IF s = <<>> THEN 0 ELSE Utf8Width(Head(s)) + ByteLen(Tail(s))

\* lines 146-150: the closure given to find
Tier1Matches(cand, lookup) ==
    LET lookup_uppercase == to_uppercase(lookup)
    IN \/ to_uppercase(cand) = lookup_uppercase
       \/ Contains(to_uppercase(cand), lookup_uppercase)
       \/ Contains(lookup_uppercase, to_uppercase(cand))

\* lines 146-152: candidates.iter().find(..)
Tier1Find(candidates, lookup) ==
    LET hits == {k \in 1..Len(candidates) : Tier1Matches(candidates[k], lookup)}
    IN IF hits = {} THEN None
       ELSE Some(candidates[CHOOSE k \in hits : \A h \in hits : k <= h])

\* line 158: dist.unwrap_or_else(|| cmp::max(lookup_len, 3) / 3)
UnwrapDist(dist, lookup) ==
    IF IsSome(dist) THEN Unwrap(dist) ELSE Max(Len(lookup), 3) \div 3

\* lines 163-167
Score(use_substring_score, lookup, cand, dist) ==
    IF use_substring_score
    THEN edit_distance_with_substrings(lookup, cand, dist)
    ELSE edit_distance(lookup, cand, dist)

\* line 180: dist = d - 1
PlainNextDistKeep(d) == d
PlainNextDist(d) == SubU(d, 1)

\* lines 169-183: the arm Some(d) of the match on the score
LoopUpdate(f, cand, d) ==
    IF f.use_substring_score
    THEN [f EXCEPT !.dist = IF d < f.dist THEN d ELSE @,
                   !.next_candidates =
                       Append(IF d < f.dist THEN <<>> ELSE @, cand),
                   !.best = Some(cand),
                   !.idx = @ + 1]
    ELSE [f EXCEPT !.dist = PlainNextDist(d),
                   !.best = Some(cand),
                   !.idx = @ + 1]

\* line 214: name.split('_')
RECURSIVE SplitFrom(_, _, _)
SplitFrom(s, k, word) ==
    IF k > Len(s) THEN <<word>>
    ELSE IF s[k] = 95 THEN <<word>> \o SplitFrom(s, k + 1, <<>>)
    ELSE SplitFrom(s, k + 1, Append(word, s[k]))

\* Ord for str: lexicographic on the bytes, which for UTF-8 is
\* lexicographic on the scalar values
RECURSIVE StrLeq(_, _)
StrLeq(u, v) ==
    IF u = <<>> THEN TRUE
    ELSE IF v = <<>> THEN FALSE
    ELSE IF Head(u) # Head(v) THEN Head(u) < Head(v)
    ELSE StrLeq(Tail(u), Tail(v))

\* line 216: split_words.sort_unstable()
RECURSIVE InsertWord(_, _)
InsertWord(sorted, w) ==
    IF sorted = <<>> THEN <<w>>
    ELSE IF StrLeq(w, Head(sorted)) THEN <<w>> \o sorted
    ELSE <<Head(sorted)>> \o InsertWord(Tail(sorted), w)

RECURSIVE SortWords(_)
SortWords(ws) ==
    IF ws = <<>> THEN <<>> ELSE InsertWord(SortWords(Tail(ws)), Head(ws))

\* lines 213-218
sort_by_words(name) == SortWords(SplitFrom(name, 1, <<>>))

\* lines 204-210: the fold over iter_names from its k-th element
RECURSIVE FoldSortedWords(_, _, _, _)
FoldSortedWords(iter_names, lookup_sorted_by_words, k, res) ==
    IF k > Len(iter_names) THEN res
    ELSE FoldSortedWords(
             iter_names, lookup_sorted_by_words, k + 1,
             IF sort_by_words(iter_names[k]) = lookup_sorted_by_words
             THEN Some(iter_names[k])
             ELSE res)

FirstBySortedWords(iter_names, lookup) ==
    LET hits == {k \in 1..Len(iter_names) :
                     sort_by_words(iter_names[k]) = sort_by_words(lookup)}
    IN IF hits = {} THEN None
       ELSE Some(iter_names[CHOOSE k \in hits : \A h \in hits : k <= h])

\* lines 202-211
find_match_by_sorted_words(iter_names, lookup) ==
    FoldSortedWords(iter_names, sort_by_words(lookup), 1, None)

---------------------------------------------------------------------------
(* find_best_match_for_name_impl, lines 134-200, one activation record per *)
(* call in progress.  pc: "tier1" (line 146), "loop" (line 162), "await"   *)
(* (the call of line 193 is in progress), "tail" (line 195), "done".       *)

Frame(use_substring_score, candidates, lookup, dist) ==
    [use_substring_score |-> use_substring_score,
     candidates |-> candidates,
     lookup |-> lookup,
     dist_arg |-> dist,
     dist |-> 0,
     best |-> None,
     next_candidates |-> <<>>,
     idx |-> 1,
     pc |-> "tier1"]

\* line 193: the arguments of the recursive call
TieBreakFrameSubstring(f) ==
    Frame(TRUE, f.next_candidates, f.lookup, Some(ByteLen(f.lookup)))
TieBreakFrame(f) ==
    Frame(FALSE, f.next_candidates, f.lookup, Some(ByteLen(f.lookup)))

Top == stack[Len(stack)]
SetTop(f) == [stack EXCEPT ![Len(stack)] = f]

\* `return v` of the running call: the outermost call ends, a recursive one
\* resumes its caller at `best = ..` of line 193
Return(v) ==
    IF Len(stack) = 1
    THEN /\ stack' = SetTop([Top EXCEPT !.pc = "done"])
         /\ returned' = TRUE
         /\ ret' = v
    ELSE /\ stack' = [SubSeq(stack, 1, Len(stack) - 1)
                         EXCEPT ![Len(stack) - 1].best = v,
                                ![Len(stack) - 1].pc = "tail"]
         /\ UNCHANGED <<returned, ret>>

Running(p) == stack # <<>> /\ Top.pc = p

\* lines 146-152: a candidate matches case-insensitively
Tier1Hit ==
    /\ Running("tier1")
    /\ IsSome(Tier1Find(Top.candidates, Top.lookup))
    /\ Return(Tier1Find(Top.candidates, Top.lookup))
    /\ UNCHANGED assert_failed
    /\ UNCHANGED distVars

\* lines 146-161: none does; set up the loop
Tier1Miss ==
    /\ Running("tier1")
    /\ ~IsSome(Tier1Find(Top.candidates, Top.lookup))
    /\ stack' = SetTop([Top EXCEPT !.dist = UnwrapDist(Top.dist_arg, Top.lookup),
                                   !.pc = "loop"])
    /\ UNCHANGED <<returned, ret, assert_failed>>
    /\ UNCHANGED distVars

\* lines 162-186: one iteration of the loop over the candidates
LoopStep ==
    /\ Running("loop")
    /\ Top.idx <= Len(Top.candidates)
    /\ LET f == Top
           cand == f.candidates[f.idx]
           sc == Score(f.use_substring_score, f.lookup, cand, f.dist)
       IN IF sc = Some(0) THEN Return(Some(cand))
          ELSE IF IsSome(sc)
               THEN /\ stack' = SetTop(LoopUpdate(f, cand, Unwrap(sc)))
                    /\ UNCHANGED <<returned, ret>>
               ELSE /\ stack' = SetTop([f EXCEPT !.idx = @ + 1])
                    /\ UNCHANGED <<returned, ret>>
    /\ UNCHANGED assert_failed
    /\ UNCHANGED distVars

\* lines 191-194: several candidates tie; call again on the tie pool
TieBreakCall ==
    /\ Running("loop")
    /\ Top.idx > Len(Top.candidates)
    /\ Len(Top.next_candidates) > 1
    /\ assert_failed' = (assert_failed \/ ~Top.use_substring_score)
    /\ stack' = Append(SetTop([Top EXCEPT !.pc = "await"]), TieBreakFrame(Top))
    /\ UNCHANGED <<returned, ret>>
    /\ UNCHANGED distVars

\* line 191: no tie
LoopExit ==
    /\ Running("loop")
    /\ Top.idx > Len(Top.candidates)
    /\ Len(Top.next_candidates) <= 1
    /\ stack' = SetTop([Top EXCEPT !.pc = "tail"])
    /\ UNCHANGED <<returned, ret, assert_failed>>
    /\ UNCHANGED distVars

\* lines 195-197
TailBest ==
    /\ Running("tail")
    /\ IsSome(Top.best)
    /\ Return(Top.best)
    /\ UNCHANGED assert_failed
    /\ UNCHANGED distVars

\* line 199
TailSortedWords ==
    /\ Running("tail")
    /\ ~IsSome(Top.best)
    /\ Return(find_match_by_sorted_words(Top.candidates, Top.lookup))
    /\ UNCHANGED assert_failed
    /\ UNCHANGED distVars

NextMatch ==
    \/ Tier1Hit
    \/ Tier1Miss
    \/ LoopStep
    \/ TieBreakCall
    \/ LoopExit
    \/ TailBest
    \/ TailSortedWords

\* Bounds of the calls drawn.
\* most candidates
MaxCands == 2
\* largest explicit dist
MaxDist == 2

\* The names drawn: "", "a", "A", "_", "a_", "_a", "__", and the three
\* orders of the words "a", "", "": "a__", "_a_", "__a".
Names ==
    { <<>>, <<97>>, <<65>>, <<95>>,
      <<97, 95>>, <<95, 97>>, <<95, 95>>,
      <<97, 95, 95>>, <<95, 97, 95>>, <<95, 95, 97>> }

CandLists == StringsOver(Names, MaxCands)
Dists == {None} \cup {Some(k) : k \in 0..MaxDist}

IdleDist ==
    /\ fn = "none"
    /\ a = <<>>
    /\ b = <<>>
    /\ c = <<>>
    /\ limit = 0
    /\ pc = "idle"
    /\ result = None
    /\ overflow = FALSE
    /\ tri = <<>>

\* find_best_match_for_name_impl(use_substring_score, candidates, lookup, dist);
\* find_best_match_for_name (lines 98-104) is the call with false
InitMatch ==
    /\ IdleDist
    /\ \E m \in BOOLEAN, cs \in CandLists, l \in Names, d \in Dists :
           stack = <<Frame(m, cs, l, d)>>
    /\ returned = FALSE
    /\ ret = None
    /\ assert_failed = FALSE

SpecMatch == InitMatch /\ [][NextMatch]_vars

\* The names of the example of lines 188-190 and of the sorted-word example.
force_capture == <<102, 111, 114, 99, 101, 95, 99, 97, 112, 116, 117, 114, 101>>
forced_capture == <<102, 111, 114, 99, 101, 100, 95, 99, 97, 112, 116, 117, 114, 101>>
capture == <<99, 97, 112, 116, 117, 114, 101>>
foo_bar == <<102, 111, 111, 95, 98, 97, 114>>
bar_foo == <<98, 97, 114, 95, 102, 111, 111>>

ExampleNames == {force_capture, capture, foo_bar, bar_foo}
ExampleLookups == {forced_capture, bar_foo}

InitExamples ==
    /\ IdleDist
    /\ \E m \in BOOLEAN, cs \in StringsOver(ExampleNames, 2),
          l \in ExampleLookups, d \in {None, Some(1)} :
           stack = <<Frame(m, cs, l, d)>>
    /\ returned = FALSE
    /\ ret = None
    /\ assert_failed = FALSE

SpecExamples == InitExamples /\ [][NextMatch]_vars

---------------------------------------------------------------------------
(* The harness of the distance functions: one call on drawn arguments. *)

NoFrames == <<>>

Init ==
    /\ fn = "none"
    /\ a \in Strings
    /\ b \in Strings
    /\ c = <<>>
    /\ limit \in Limits
    /\ pc = "call"
    /\ result = None
    /\ overflow = FALSE
    /\ tri = <<>>
    /\ stack = NoFrames
    /\ returned = FALSE
    /\ ret = None
    /\ assert_failed = FALSE

\* edit_distance(a, b, limit)
CallEditDistance ==
    /\ pc = "call"
    /\ LET r == edit_distance_run(a, b, limit)
       IN /\ result' = r.val
          /\ overflow' = r.ovf
    /\ fn' = "edit_distance"
    /\ pc' = "done"
    /\ UNCHANGED <<a, b, c, limit, tri>>
    /\ UNCHANGED matchVars

\* edit_distance_with_substrings(a, b, limit), no usize operation leaving
\* the range, or one leaving it in a build that wraps
CallWithSubstrings ==
    /\ pc = "call"
    /\ LET r == edit_distance_with_substrings_run(a, b, limit)
       IN /\ result' = r.val
          /\ overflow' = r.ovf
    /\ fn' = "edit_distance_with_substrings"
    /\ pc' = "done"
    /\ UNCHANGED <<a, b, c, limit, tri>>
    /\ UNCHANGED matchVars

\* edit_distance_with_substrings(a, b, limit) in a build with overflow
\* checks: the operation that leaves the range panics
PanicWithSubstrings ==
    /\ pc = "call"
    /\ edit_distance_with_substrings_run(a, b, limit).ovf
    /\ overflow' = TRUE
    /\ fn' = "edit_distance_with_substrings"
    /\ pc' = "panicked"
    /\ UNCHANGED <<a, b, c, limit, result, tri>>
    /\ UNCHANGED matchVars

Next == CallEditDistance \/ CallWithSubstrings \/ PanicWithSubstrings

Spec == Init /\ [][Next]_vars

---------------------------------------------------------------------------
(* The triangle harness: the three distances of three drawn strings. *)

InitTriangle ==
    /\ fn = "none"
    /\ a \in Strings
    /\ b \in Strings
    /\ c \in Strings
    /\ limit = UsizeMax
    /\ pc = "call"
    /\ result = None
    /\ overflow = FALSE
    /\ tri = <<>>
    /\ stack = NoFrames
    /\ returned = FALSE
    /\ ret = None
    /\ assert_failed = FALSE

\* tests/test.rs lines 94-97: edit_distance_unchecked on (a, b), (a, c), (b, c)
CallTriangle ==
    /\ pc = "call"
    /\ tri' = <<Unwrap(edit_distance(a, b, limit)),
                Unwrap(edit_distance(a, c, limit)),
                Unwrap(edit_distance(b, c, limit))>>
    /\ fn' = "triangle"
    /\ pc' = "done"
    /\ UNCHANGED <<a, b, c, limit, result, overflow>>
    /\ UNCHANGED matchVars

NextTriangle == CallTriangle

SpecTriangle == InitTriangle /\ [][NextTriangle]_vars

---------------------------------------------------------------------------
(* The restricted edit distance by the full recurrence: the complete table *)
(* D[0..|x|][0..|y|] over the sequences as given, unbounded integers.      *)
(* t[i + 1][j + 1] is D(i, j).                                             *)

RECURSIVE RefFill(_, _, _, _, _, _)
RefFill(t, row, x, y, i, j) ==
    IF j > Len(y) THEN row
    ELSE LET del == t[i][j + 1] + 1
             ins == row[j] + 1
             sub == t[i][j] + (IF x[i] = y[j] THEN 0 ELSE 1)
             m3 == Min(del, Min(ins, sub))
             cell == IF i > 1 /\ j > 1 /\ x[i] = y[j - 1] /\ x[i - 1] = y[j]
                     THEN Min(m3, t[i - 1][j - 1] + 1)
                     ELSE m3
         IN RefFill(t, Append(row, cell), x, y, i, j + 1)

RECURSIVE RefTable(_, _, _, _)
RefTable(t, x, y, i) ==
    IF i > Len(x) THEN t
    ELSE RefTable(Append(t, RefFill(t, <<i>>, x, y, i, 1)), x, y, i + 1)

RefDistance(x, y) ==
    RefTable(<<[k \in 1..(Len(y) + 1) |-> k - 1]>>, x, y, 1)[Len(x) + 1][Len(y) + 1]

Expected(x, y, lim) ==
    IF RefDistance(x, y) <= lim THEN Some(RefDistance(x, y)) ELSE None

AbsDiff(x, y) == IF x < y THEN y - x ELSE x - y

DoneEditDistance == pc = "done" /\ fn = "edit_distance"

---------------------------------------------------------------------------
(* Claims about the distance functions. *)

\* C1: edit_distance(a, b, limit) is Some(d) when d <= limit and None when
\* d > limit, d being the restricted edit distance of the full recurrence
\* over the complete, unstripped sequences.
C1_BoundedDistanceIsReference ==
    DoneEditDistance => result = Expected(a, b, limit)

\* a call that swapped, stripped a common first character, ran the rows
\* and stayed within the limit
C1_Witness ==
    /\ DoneEditDistance
    /\ Len(a) = 2 /\ Len(b) = 3
    /\ a[1] = b[1] /\ a[2] # b[3]
    /\ result = Some(2)
    /\ limit = 2

\* C2: with an unbounded limit, edit_distance(a, b) <=
\* edit_distance(a, c) + edit_distance(b, c).
C2_TriangleInequality ==
    (pc = "done" /\ fn = "triangle") => tri[1] <= tri[2] + tri[3]

\* C5: edit_distance(a, b, limit) = edit_distance(b, a, limit).
C5_Symmetry ==
    DoneEditDistance => result = edit_distance(b, a, limit)

\* equal lengths (no swap either way), different strings, rows run
C5_Witness ==
    /\ DoneEditDistance
    /\ Len(a) = Len(b) /\ Len(a) >= 2
    /\ a[1] # b[1] /\ a[Len(a)] # b[Len(b)]
    /\ IsSome(result)

\* C6: with an unbounded limit the distance is 0 iff a = b, and positive
\* otherwise.
C6_Identity ==
    (DoneEditDistance /\ limit = UsizeMax) =>
        /\ IsSome(result)
        /\ (Unwrap(result) = 0) <=> (a = b)
        /\ (a # b) => Unwrap(result) > 0

\* two different strings of one length that share a prefix and a suffix
C6_Witness ==
    /\ DoneEditDistance /\ limit = UsizeMax
    /\ Len(a) = 3 /\ Len(b) = 3
    /\ a[1] = b[1] /\ a[2] # b[2] /\ a[3] = b[3]
    /\ result = Some(1)

\* C7: with an unbounded limit the distance lies between the difference of
\* the character counts and the character count of the longer string.
C7_Bounds ==
    (DoneEditDistance /\ limit = UsizeMax) =>
        /\ IsSome(result)
        /\ Unwrap(result) >= AbsDiff(Len(a), Len(b))
        /\ Unwrap(result) <= Max(Len(a), Len(b))

\* strings of different lengths whose distance is the longer one's length
C7_Witness ==
    /\ DoneEditDistance /\ limit = UsizeMax
    /\ Len(a) = 2 /\ Len(b) = 3
    /\ result = Some(3)

\* C10: no usize operation of edit_distance or of
\* edit_distance_with_substrings leaves the usize range, for any strings
\* and any limit up to usize::MAX.
C10_NoOverflow ==
    (pc \in {"done", "panicked"}) => ~overflow

---------------------------------------------------------------------------
(* Claims about find_best_match_for_name. *)

\* the outermost call, and whether it was find_best_match_for_name's
Outer == stack[1]
PlainCallReturned == returned /\ ~Outer.use_substring_score

\* the budget: the explicit dist, or max(char count of lookup, 3) / 3
Budget(f) ==
    IF IsSome(f.dist_arg) THEN Unwrap(f.dist_arg) ELSE Max(Len(f.lookup), 3) \div 3

\* the edit distance from the lookup to the k-th candidate
Distance(f, k) == RefDistance(f.lookup, f.candidates[k])

NoTier1(f) == \A k \in 1..Len(f.candidates) : ~Tier1Matches(f.candidates[k], f.lookup)

\* the candidates among the first n that are within the budget, and the
\* earliest of them at the smallest distance
WithinBudget(f, n) == {k \in 1..n : Distance(f, k) <= Budget(f)}
FirstSeenMinimum(f, n) ==
    CHOOSE k \in WithinBudget(f, n) :
        \A h \in WithinBudget(f, n) :
            \/ Distance(f, k) < Distance(f, h)
            \/ (Distance(f, k) = Distance(f, h) /\ k <= h)

\* the candidates whose sorted words are the lookup's
SortedWordHits(f) ==
    {k \in 1..Len(f.candidates) :
         sort_by_words(f.candidates[k]) = sort_by_words(f.lookup)}

\* no candidate matches tier 1 and none is within the budget
FallbackCase(f) ==
    /\ NoTier1(f)
    /\ WithinBudget(f, Len(f.candidates)) = {}

\* C3: find_best_match_for_name(["force_capture", "capture"],
\* "forced_capture", None) returns "force_capture".
C3_ForceCaptureExample ==
    ( /\ PlainCallReturned
      /\ Outer.candidates = <<force_capture, capture>>
      /\ Outer.lookup = forced_capture
      /\ Outer.dist_arg = None )
    => ret = Some(force_capture)

\* C4 as stated: in the fallback case find_best_match_for_name returns the
\* FIRST candidate whose sorted words equal the lookup's, and none exactly
\* when there is no such candidate.
C4_FirstSortedWordMatch ==
    (PlainCallReturned /\ FallbackCase(Outer)) =>
        ret = IF SortedWordHits(Outer) = {} THEN None
              ELSE Some(Outer.candidates[
                       CHOOSE k \in SortedWordHits(Outer) :
                           \A h \in SortedWordHits(Outer) : k <= h])

\* C4 amended: in the fallback case find_best_match_for_name returns the
\* LAST candidate whose sorted words equal the lookup's, and none exactly
\* when there is no such candidate.
C4_LastSortedWordMatch ==
    (PlainCallReturned /\ FallbackCase(Outer)) =>
        ret = IF SortedWordHits(Outer) = {} THEN None
              ELSE Some(Outer.candidates[
                       CHOOSE k \in SortedWordHits(Outer) :
                           \A h \in SortedWordHits(Outer) : k >= h])

\* the fallback chose between two different candidates with the lookup's words
C4_Witness ==
    /\ PlainCallReturned
    /\ FallbackCase(Outer)
    /\ Len(Outer.candidates) = 2
    /\ SortedWordHits(Outer) = {1, 2}
    /\ Outer.candidates[1] # Outer.candidates[2]
    /\ ret = Some(Outer.candidates[2])

\* C8: in plain-distance mode, after a tier-1 miss, the running best is at
\* every point of the loop the earliest candidate seen so far at the
\* smallest distance within the budget (so a later candidate replaces it
\* only with a strictly smaller distance), and find_best_match_for_name
\* returns the earliest candidate at the smallest distance when that
\* distance is within the budget.
C8_FirstSeenMinimum ==
    /\ \A n \in 1..Len(stack) :
           LET f == stack[n]
               seen == IF f.pc = "loop" THEN f.idx - 1 ELSE Len(f.candidates)
           IN (~f.use_substring_score /\ f.pc \in {"loop", "tail"}) =>
                  f.best = IF WithinBudget(f, seen) = {} THEN None
                           ELSE Some(f.candidates[FirstSeenMinimum(f, seen)])
    /\ ( /\ PlainCallReturned
         /\ NoTier1(Outer)
         /\ WithinBudget(Outer, Len(Outer.candidates)) # {} )
       => ret = Some(Outer.candidates[
                         FirstSeenMinimum(Outer, Len(Outer.candidates))])

\* two different candidates tie at the smallest distance, the first is returned
C8_Witness ==
    /\ PlainCallReturned
    /\ NoTier1(Outer)
    /\ Len(Outer.candidates) = 2
    /\ Outer.candidates[1] # Outer.candidates[2]
    /\ Distance(Outer, 1) = Distance(Outer, 2)
    /\ Distance(Outer, 1) <= Budget(Outer)
    /\ ret = Some(Outer.candidates[1])

\* what is left to do in a call, counting the one recursive call a call in
\* substring mode may still make
FrameMeasure(f) ==
    (CASE f.pc = "tier1" -> Len(f.candidates) + 3
       [] f.pc = "loop" -> Len(f.candidates) - f.idx + 3
       [] f.pc = "await" -> 1
       [] f.pc = "tail" -> 1
       [] OTHER -> 0)
    + (IF f.use_substring_score /\ f.pc \in {"tier1", "loop"}
       THEN Len(f.candidates) + 4 ELSE 0)

RECURSIVE StackMeasure(_)
StackMeasure(st) ==
    IF st = <<>> THEN 0 ELSE FrameMeasure(Head(st)) + StackMeasure(Tail(st))

\* C9: the tie pool is non-empty only in substring mode, so the assertion
\* of line 192 never fails; the recursion is at most one level deep and the
\* call terminates (every step decreases a natural-valued measure).
C9_TiePoolAndRecursion ==
    /\ [](/\ \A n \in 1..Len(stack) :
                 Len(stack[n].next_candidates) > 0 => stack[n].use_substring_score
          /\ ~assert_failed
          /\ Len(stack) <= 2)
    /\ [][StackMeasure(stack') < StackMeasure(stack)]_vars

\* the recursive call is running on a tie pool of two candidates
C9_Witness ==
    /\ Len(stack) = 2
    /\ stack[1].pc = "await"
    /\ Len(stack[1].next_candidates) = 2
    /\ stack[2].pc = "loop"
    /\ ~stack[2].use_substring_score

====
